---- MODULE Spec2Model ----
(***************************************************************************)
(* Roll-expression analysis of betterrollssw5e (scripts/utils/utils.js):   *)
(* Utils.getRollState, Utils.processRoll, Utils.findD20Term,               *)
(* Utils.parseD20Formula, Utils.getRollFlavors, ItemUtils.getCritRoll and  *)
(* Utils.playDiceSound.                                                    *)
(*                                                                         *)
(* Every function is an operator computed the way the code computes it.    *)
(* Each group of functions has its own specification: Init draws the       *)
(* arguments from bounded sets, and one action per function applies it.    *)
(* JavaScript values are written as strings ("null", "true", "0", ...) so  *)
(* that truthiness is modelled and not assumed.                            *)
(***************************************************************************)
EXTENDS Integers, Sequences, FiniteSets, TLC

VARIABLES
    pc,          \* the operation that ran last ("idle" before any)
    request,     \* getRollState: the argument object
    rollState,   \* getRollState: the value returned
    roll,        \* processRoll: the evaluated roll ([dice, ignored])
    threshold,   \* processRoll: the crit threshold (0: not given)
    critChecks,  \* processRoll: [all, faces], true or the faces to test
    tally,       \* processRoll: the locals high and low after the loop
    outcome,     \* processRoll: the object returned
    d20Roll,     \* findD20Term, parseD20Formula: the roll (a tree of terms)
    d20Term,     \* findD20Term: the term returned, as its place in the tree
    parsed,      \* parseD20Formula: the object returned
    rollBefore,  \* d20Roll as it was before the last call
    firstParsed, \* what the first call of parseD20Formula returned
    parseCalls,  \* the calls of parseD20Formula so far
    flavorRolls, \* getRollFlavors: the rolls passed
    flavors,     \* getRollFlavors: the array returned
    baseFormula, \* getCritRoll: the base formula (a string, as its characters)
    baseTotal,   \* getCritRoll: the total of the base roll
    extraCritDice, \* getCritRoll: <<>> when not given, else <<n>>
    critBehavior, \* getCritRoll: the critBehavior setting
    rolledCrit,  \* getCritRoll: critRoll after line 630 (altered and rolled)
    critRoll,    \* getCritRoll: the value returned
    playSoundLock, \* playDiceSound: Utils._playSoundLock
    timeouts,    \* playDiceSound: the pending setTimeout callbacks, by due time (ms)
    now,         \* the time (ms)
    soundCalls,  \* the calls of playDiceSound so far
    soundEvents  \* the sounds played ("play") and callbacks run ("timeout"), in order

rollStateVars == <<request, rollState>>
processVars == <<roll, threshold, critChecks, tally, outcome>>
d20Vars == <<d20Roll, d20Term, parsed, rollBefore, firstParsed, parseCalls>>
flavorVars == <<flavorRolls, flavors>>
critVars == <<baseFormula, baseTotal, extraCritDice, critBehavior, rolledCrit, critRoll>>
soundVars == <<playSoundLock, timeouts, now, soundCalls, soundEvents>>
vars == <<pc, rollStateVars, processVars, d20Vars, flavorVars, critVars, soundVars>>

Null == "null"

\* JavaScript truthiness of the values the flags can hold.
Truthy(v) == v \notin {"null", "false", "0", ""}

\* The variables of getRollState before any call.
RollStateIdle ==
    /\ request = Null
    /\ rollState = Null

\* The variables of processRoll before any call.
ProcessIdle ==
    /\ roll = [dice |-> <<>>, ignored |-> FALSE]
    /\ threshold = 0
    /\ critChecks = [all |-> TRUE, faces |-> {}]
    /\ tally = [high |-> 0, low |-> 0]
    /\ outcome = Null

\* A term, or a roll: the properties the code reads.  faces is 0 when the
\* object has none; via names the property that holds its children ("terms",
\* "rolls" or "results"), "none" when it has none of them.
Node(faces, number, modifiers, flavor, via, kids) ==
    [faces |-> faces, number |-> number, modifiers |-> modifiers,
     flavor |-> flavor, via |-> via, kids |-> kids]

\* A roll holds its terms under "terms".
RollOf(terms) == Node(0, 0, <<>>, "", "terms", terms)

\* No roll at all: the argument is null or undefined.
NoRoll == Node(0, 0, <<>>, "", "null", <<>>)

NotFound == [found |-> FALSE, path |-> <<>>]
NotParsed == [formula |-> <<>>, full |-> FALSE, numRolls |-> -1, rollState |-> "absent"]

\* The variables of findD20Term and parseD20Formula before any call.
D20Idle ==
    /\ d20Roll = RollOf(<<>>)
    /\ d20Term = NotFound
    /\ parsed = NotParsed
    /\ rollBefore = RollOf(<<>>)
    /\ firstParsed = NotParsed
    /\ parseCalls = 0

\* The variables of getRollFlavors before any call.
FlavorsIdle ==
    /\ flavorRolls = <<>>
    /\ flavors = <<>>

\* A Roll as getCritRoll handles it: null, or its terms, its formula and,
\* once evaluated, its total.
NoCritRoll == [null |-> TRUE, terms |-> <<>>, formula |-> <<>>, evaluated |-> FALSE, total |-> 0]

\* The variables of getCritRoll before any call.
CritIdle ==
    /\ baseFormula = <<>>
    /\ baseTotal = 0
    /\ extraCritDice = <<>>
    /\ critBehavior = Null
    /\ rolledCrit = NoCritRoll
    /\ critRoll = NoCritRoll

\* The variables of playDiceSound before any call: the static field is not
\* set, no callback is pending.
SoundIdle ==
    /\ playSoundLock = Null
    /\ timeouts = <<>>
    /\ now = 0
    /\ soundCalls = 0
    /\ soundEvents = <<>>

(***************************************************************************)
(* Utils.eventToAdvantage and Utils.getRollState                           *)
(***************************************************************************)

\* An event is absent (present = FALSE) or carries the three modifier keys.
NoEvent == [present |-> FALSE, shiftKey |-> FALSE, ctrlKey |-> FALSE, metaKey |-> FALSE]

Events ==
    {NoEvent} \cup
    [present : {TRUE}, shiftKey : BOOLEAN, ctrlKey : BOOLEAN, metaKey : BOOLEAN]

RollStates == {Null, "highest", "lowest", "first"}
FlagValues == {Null, "false", "true"}

Requests ==
    [rollState : RollStates, event : Events,
     advantage : FlagValues, disadvantage : FlagValues,
     adv : FlagValues, disadv : FlagValues]

eventToAdvantage(ev) ==
    IF ev.shiftKey THEN [advantage |-> "1", disadvantage |-> "0"]
    ELSE IF ev.ctrlKey \/ ev.metaKey THEN [advantage |-> "0", disadvantage |-> "1"]
    ELSE [advantage |-> "0", disadvantage |-> "0"]

\* The parameter defaults of getRollState: every field left out is null.
WithDefaults(modifiers) ==
    [rollState |-> Null, event |-> NoEvent,
     advantage |-> modifiers.advantage, disadvantage |-> modifiers.disadvantage,
     adv |-> Null, disadv |-> Null]

RECURSIVE getRollState(_)

\* A slip in the order of the tests: the disadvantage flags before the
\* advantage flags.
getRollStateDisadvFirst(p) ==
    IF Truthy(p.rollState) THEN p.rollState
    ELSE IF Truthy(p.disadvantage) \/ Truthy(p.disadv) THEN "lowest"
    ELSE IF Truthy(p.advantage) \/ Truthy(p.adv) THEN "highest"
    ELSE IF p.event.present
              /\ LET modifiers == eventToAdvantage(p.event)
                 IN  Truthy(modifiers.advantage) \/ Truthy(modifiers.disadvantage)
         THEN getRollState(WithDefaults(eventToAdvantage(p.event)))
    ELSE Null

getRollState(p) ==
    IF Truthy(p.rollState) THEN p.rollState
    ELSE IF Truthy(p.advantage) \/ Truthy(p.adv) THEN "highest"
    ELSE IF Truthy(p.disadvantage) \/ Truthy(p.disadv) THEN "lowest"
    ELSE IF p.event.present
              /\ LET modifiers == eventToAdvantage(p.event)
                 IN  Truthy(modifiers.advantage) \/ Truthy(modifiers.disadvantage)
         THEN getRollState(WithDefaults(eventToAdvantage(p.event)))
    ELSE Null

InitRollState ==
    /\ pc = "idle"
    /\ request \in Requests
    /\ rollState = Null
    /\ ProcessIdle
    /\ D20Idle
    /\ FlavorsIdle
    /\ CritIdle
    /\ SoundIdle

GetRollState ==
    /\ pc = "idle"
    /\ rollState' = getRollState(request)
    /\ pc' = "getRollState"
    /\ UNCHANGED <<request, processVars, d20Vars, flavorVars, critVars, soundVars>>

NextRollState == GetRollState

SpecRollState == InitRollState /\ [][NextRollState]_vars

\* C1: getRollState resolves in strict priority order: an explicit rollState
\* is returned unchanged; otherwise an advantage flag (advantage or adv) gives
\* "highest" even with a disadvantage flag set; otherwise a disadvantage flag
\* gives "lowest"; otherwise the event is translated (shift -> highest,
\* ctrl/meta -> lowest, shift winning); otherwise the result is null (none).
RollStatePrecedence ==
    pc = "getRollState" =>
        LET explicit == request.rollState # Null
            advFlag  == request.advantage = "true" \/ request.adv = "true"
            disFlag  == request.disadvantage = "true" \/ request.disadv = "true"
            ev       == request.event
        IN  /\ explicit => rollState = request.rollState
            /\ (~explicit /\ advFlag) => rollState = "highest"
            /\ (~explicit /\ ~advFlag /\ disFlag) => rollState = "lowest"
            /\ (~explicit /\ ~advFlag /\ ~disFlag /\ ev.present /\ ev.shiftKey)
                   => rollState = "highest"
            /\ (~explicit /\ ~advFlag /\ ~disFlag /\ ev.present /\ ~ev.shiftKey
                   /\ (ev.ctrlKey \/ ev.metaKey))
                   => rollState = "lowest"
            /\ (~explicit /\ ~advFlag /\ ~disFlag
                   /\ (~ev.present \/ (~ev.shiftKey /\ ~ev.ctrlKey /\ ~ev.metaKey)))
                   => rollState = Null

\* The case of C1 where every rule competes: explicit state, both flags and
\* an event with shift and ctrl held.
RollStatePrecedenceWitness ==
    /\ pc = "getRollState"
    /\ request.rollState = "lowest"
    /\ request.advantage = "true"
    /\ request.disadv = "true"
    /\ request.event.present /\ request.event.shiftKey /\ request.event.ctrlKey
    /\ rollState = "lowest"

(***************************************************************************)
(* Utils.processRoll                                                       *)
(***************************************************************************)

MaxResults == 2     \* results in a roll, over all its dice

DieFaces == {1, 2, 3}
Thresholds == {0, 1, 3}   \* 0: no threshold given
CritCheckValues ==
    {[all |-> TRUE, faces |-> {}]} \cup [all : {FALSE}, faces : {{}, {3}}]
Bonuses == {-1, 2}  \* bonus?.total; -1 stands for no bonus roll

\* One die result: its value and the two marks the roll engine sets.
Results == [result : DieFaces, rerolled : BOOLEAN, discarded : BOOLEAN]

\* The sum of the first n entries of a vector of numbers.
RECURSIVE SumTo(_, _)
SumTo(c, n) == IF n = 0 THEN 0 ELSE c[n] + SumTo(c, n - 1)

\* The shape of an evaluated roll: how many dice terms, the faces of each
\* and how many results each holds (at least the one die it rolled).
RollShapes ==
    UNION {[n : {n}, faces : [1..n -> DieFaces],
            counts : {c \in [1..n -> 1..MaxResults] : SumTo(c, n) <= MaxResults}]
           : n \in 0..MaxResults}

\* The roll of a shape whose results, in order, are those of flat.
BuildRoll(shape, flat, ignored) ==
    [dice |-> [i \in 1..shape.n |->
                 [faces |-> shape.faces[i],
                  results |-> [j \in 1..shape.counts[i] |->
                                 flat[SumTo(shape.counts, i - 1) + j]]]],
     ignored |-> ignored]

\* A die shows a value from 1 to its number of faces.
WellFormed(r) ==
    \A i \in DOMAIN r.dice : \A j \in DOMAIN r.dice[i].results :
        r.dice[i].results[j].result <= r.dice[i].faces

\* roll.total as the roll engine computed it: the results still in play.
RECURSIVE SumActive(_)
SumActive(results) ==
    IF results = <<>> THEN 0
    ELSE (IF Head(results).rerolled \/ Head(results).discarded THEN 0
          ELSE Head(results).result) + SumActive(Tail(results))

RECURSIVE RollTotal(_)
RollTotal(dice) ==
    IF dice = <<>> THEN 0 ELSE SumActive(Head(dice).results) + RollTotal(Tail(dice))

\* A slip: filtering on the discarded mark as well.
NotRerolledNorDiscarded(results) ==
    SelectSeq(results, LAMBDA r : ~r.rerolled /\ ~r.discarded)

\* d.results.filter(r => !r.rerolled)
NotRerolled(results) == SelectSeq(results, LAMBDA r : ~r.rerolled)

\* threshold || d.faces
EffectiveThreshold(t, faces) == IF t # 0 THEN t ELSE faces

\* The inner loop over one die's filtered results, from the tallies so far.
RECURSIVE CountResults(_, _, _)

CountResults(results, limit, acc) ==
    IF results = <<>> THEN acc
    ELSE LET r == Head(results).result
         IN  CountResults(Tail(results), limit,
                 IF r >= limit THEN [acc EXCEPT !.high = @ + 1]
                 ELSE IF r = 1 THEN [acc EXCEPT !.low = @ + 1]
                 ELSE acc)

\* A slip: the selector ignored.
CheckedAll(d, checks) == d.faces > 1

\* d.faces > 1 && (critChecks == true || critChecks.includes(d.faces))
Checked(d, checks) == d.faces > 1 /\ (checks.all \/ d.faces \in checks.faces)

\* The outer loop over roll.dice.
RECURSIVE CountDice(_, _, _, _)
CountDice(dice, t, checks, acc) ==
    IF dice = <<>> THEN acc
    ELSE LET d == Head(dice)
         IN  CountDice(Tail(dice), t, checks,
                 IF Checked(d, checks)
                 THEN CountResults(NotRerolled(d.results), EffectiveThreshold(t, d.faces), acc)
                 ELSE acc)

\* A slip: "mixed" tested last, so that it is never reached.
critTypeOfMixedLast(high, low) ==
    IF high > 0 THEN "success"
    ELSE IF low > 0 THEN "failure"
    ELSE IF high > 0 /\ low > 0 THEN "mixed"
    ELSE Null

critTypeOf(high, low) ==
    IF high > 0 /\ low > 0 THEN "mixed"
    ELSE IF high > 0 THEN "success"
    ELSE IF low > 0 THEN "failure"
    ELSE Null

\* The object processRoll returns for a roll that is given.
processRoll(r, t, checks, bonus) ==
    LET counted == CountDice(r.dice, t, checks, [high |-> 0, low |-> 0])
    IN  [total    |-> RollTotal(r.dice) + (IF bonus = -1 THEN 0 ELSE bonus),
         ignored  |-> IF r.ignored THEN "true" ELSE "undefined",
         critType |-> critTypeOf(counted.high, counted.low),
         isCrit   |-> counted.high > 0]

InitProcess ==
    /\ pc = "idle"
    /\ RollStateIdle
    /\ \E shape \in RollShapes :
          \E flat \in [1..SumTo(shape.counts, shape.n) -> Results], ignored \in BOOLEAN :
              /\ roll = BuildRoll(shape, flat, ignored)
              /\ WellFormed(roll)
    /\ threshold = 0
    /\ critChecks = [all |-> TRUE, faces |-> {}]
    /\ tally = [high |-> 0, low |-> 0]
    /\ outcome = Null
    /\ D20Idle
    /\ FlavorsIdle
    /\ CritIdle
    /\ SoundIdle

ProcessRoll ==
    /\ pc = "idle"
    /\ \E t \in Thresholds, checks \in CritCheckValues, bonus \in Bonuses :
          /\ threshold' = t
          /\ critChecks' = checks
          /\ tally' = CountDice(roll.dice, t, checks, [high |-> 0, low |-> 0])
          /\ outcome' = processRoll(roll, t, checks, bonus)
    /\ pc' = "processRoll"
    /\ UNCHANGED <<roll, rollStateVars, d20Vars, flavorVars, critVars, soundVars>>

NextProcess == ProcessRoll

SpecProcess == InitProcess /\ [][NextProcess]_vars

\* C2: the critType returned is decided by the two tallies alone: "mixed"
\* when both are positive, "success" when only high is, "failure" when only
\* low is, null when both are 0; and isCrit is true exactly when high > 0,
\* that is for "success" and "mixed" only.
CritTypeByTallies ==
    pc = "processRoll" =>
        /\ (outcome.critType = "mixed") <=> (tally.high > 0 /\ tally.low > 0)
        /\ (outcome.critType = "success") <=> (tally.high > 0 /\ tally.low = 0)
        /\ (outcome.critType = "failure") <=> (tally.high = 0 /\ tally.low > 0)
        /\ (outcome.critType = Null) <=> (tally.high = 0 /\ tally.low = 0)
        /\ outcome.isCrit <=> (tally.high > 0)
        /\ outcome.isCrit <=> (outcome.critType \in {"success", "mixed"})

\* A roll of C2 with a result at the threshold and a result of 1: "mixed".
CritTypeByTalliesWitness ==
    /\ pc = "processRoll"
    /\ tally.high > 0 /\ tally.low > 0
    /\ outcome.critType = "mixed" /\ outcome.isCrit

\* The non-rerolled results of die d whose value satisfies P.
CountIn(d, P(_)) ==
    Cardinality({j \in DOMAIN d.results : ~d.results[j].rerolled /\ P(d.results[j].result)})

\* Over the dice terms with faces > 1 that critChecks selects, the number of
\* non-rerolled results whose value satisfies P for their die.
SumSelected(P(_, _)) ==
    SumTo([i \in DOMAIN roll.dice |->
             IF roll.dice[i].faces > 1
                  /\ (critChecks.all \/ roll.dice[i].faces \in critChecks.faces)
             THEN CountIn(roll.dice[i], LAMBDA v : P(roll.dice[i], v))
             ELSE 0],
          Len(roll.dice))

\* The threshold a die term is held to: the one given, or its face count.
ThresholdFor(d) == IF threshold = 0 THEN d.faces ELSE threshold

\* C3 as stated: over the selected dice terms, high counts the non-rerolled
\* results at or above the threshold and low counts every non-rerolled result
\* equal to 1; the other dice terms count for nothing.
TalliesCountEveryOne ==
    pc = "processRoll" =>
        /\ tally.high = SumSelected(LAMBDA d, v : v >= ThresholdFor(d))
        /\ tally.low = SumSelected(LAMBDA d, v : v = 1)

\* C3 as amended: over the selected dice terms, high counts the non-rerolled
\* results at or above the threshold and low counts the non-rerolled results
\* equal to 1 that are below the threshold; the other dice terms (faces <= 1,
\* or not selected) count for nothing.
TalliesCount ==
    pc = "processRoll" =>
        /\ tally.high = SumSelected(LAMBDA d, v : v >= ThresholdFor(d))
        /\ tally.low = SumSelected(LAMBDA d, v : v = 1 /\ v < ThresholdFor(d))

\* A roll of C3 under a threshold of 1: a selected die shows a 1, which
\* counts as high and not as low, beside a die that is not selected.
TalliesCountWitness ==
    /\ pc = "processRoll"
    /\ threshold = 1
    /\ \E i \in DOMAIN roll.dice :
          /\ Checked(roll.dice[i], critChecks)
          /\ \E j \in DOMAIN roll.dice[i].results :
                ~roll.dice[i].results[j].rerolled /\ roll.dice[i].results[j].result = 1
    /\ \E i \in DOMAIN roll.dice : ~Checked(roll.dice[i], critChecks)
    /\ tally.high = 1 /\ tally.low = 0

\* The roll r with the discarded mark of result j of die i flipped.
FlipDiscarded(r, i, j) ==
    [r EXCEPT !.dice[i].results[j].discarded = ~@]

\* The roll r without its rerolled results.
DropRerolled(r) ==
    [r EXCEPT !.dice = [i \in DOMAIN r.dice |->
        [r.dice[i] EXCEPT !.results = SelectSeq(@, LAMBDA x : ~x.rerolled)]]]

\* C4: flipping the discarded mark of any one result changes neither critType
\* nor isCrit, and the rerolled results contribute to neither: the roll
\* without them is classified the same.
DiscardedCountsRerolledDoesNot ==
    pc = "processRoll" =>
        /\ \A i \in DOMAIN roll.dice : \A j \in DOMAIN roll.dice[i].results :
              LET other == processRoll(FlipDiscarded(roll, i, j), threshold, critChecks, -1)
              IN  other.critType = outcome.critType /\ other.isCrit = outcome.isCrit
        /\ LET kept == processRoll(DropRerolled(roll), threshold, critChecks, -1)
           IN  kept.critType = outcome.critType /\ kept.isCrit = outcome.isCrit

\* A roll of C4: the only result at the threshold is a discarded one, which
\* makes the roll a crit, while a rerolled 1 counts for nothing.
DiscardedCountsRerolledDoesNotWitness ==
    /\ pc = "processRoll"
    /\ outcome.critType = "success"
    /\ \E i \in DOMAIN roll.dice :
          /\ Checked(roll.dice[i], critChecks)
          /\ \E j, k \in DOMAIN roll.dice[i].results :
                /\ roll.dice[i].results[j].discarded
                /\ ~roll.dice[i].results[j].rerolled
                /\ roll.dice[i].results[j].result >= ThresholdFor(roll.dice[i])
                /\ roll.dice[i].results[k].rerolled
                /\ roll.dice[i].results[k].result = 1
    /\ tally.high = 1

(***************************************************************************)
(* Utils.findD20Term and Utils.parseD20Formula                             *)
(***************************************************************************)

MaxNodes == 3       \* terms in a roll, nested ones included

\* The shapes of the trees of n terms: the nesting depth of each term, the
\* terms taken in the order the code visits them (a term, then its children).
TreeShapes(n) ==
    {d \in [1..n -> 1..n] :
        \A i \in 1..n : IF i = 1 THEN d[i] = 1 ELSE d[i] <= d[i - 1] + 1}

\* The children of term i in a shape (of the roll itself when i = 0).
ChildrenOf(d, i) ==
    LET depth == IF i = 0 THEN 0 ELSE d[i]
    IN  {j \in (i + 1)..Len(d) :
            d[j] = depth + 1 /\ \A m \in (i + 1)..(j - 1) : d[m] > depth}

RECURSIVE Ascending(_)
Ascending(S) ==
    IF S = {} THEN <<>>
    ELSE LET least == CHOOSE x \in S : \A y \in S : x <= y
         IN  <<least>> \o Ascending(S \ {least})

\* A nested term holds its children under "terms" (a sub-expression) or under
\* "rolls" (a pool).
Containers == {Node(0, 0, <<>>, "", via, <<>>) : via \in {"terms", "rolls"}}

\* Only a nested term has children.
Fits(d, labels) ==
    \A i \in 1..Len(d) : ChildrenOf(d, i) # {} => labels[i] \in Containers

\* The children of term i of the tree whose terms, in order, are labels.
RECURSIVE BuildKids(_, _, _)
BuildKids(d, labels, i) ==
    LET c == Ascending(ChildrenOf(d, i))
    IN  [k \in 1..Len(c) |-> [labels[c[k]] EXCEPT !.kids = BuildKids(d, labels, c[k])]]

\* The modifiers a d20 term carries: keep highest, keep lowest, a reroll.
ModifierLists ==
    {<<>>, <<"kh">>, <<"kl">>, <<"r1", "kh">>, <<"kl", "kh">>}

\* A dice term holds its results under "results" (none of them matter here).
Die(faces, number, modifiers) == Node(faces, number, modifiers, "", "results", <<>>)

\* An operator term: no faces, no children.
Operator == Node(0, 0, <<>>, "", "none", <<>>)

D20Leaves ==
    {Die(20, n, m) : n \in {1, 2}, m \in ModifierLists} \cup {Die(8, 1, <<>>), Operator}

D20Terms == D20Leaves \cup Containers

\* A slip: the pools' rolls left out.
TermsOnly(node) == IF node.via = "terms" THEN node.kids ELSE <<>>

\* d20Roll.terms ?? d20Roll.rolls ?? []
TermsOrRolls(node) == IF node.via \in {"terms", "rolls"} THEN node.kids ELSE <<>>

\* The loop of findD20Term over the children of node, from child i on.  The
\* term returned is named by its path: the positions from node down to it.
RECURSIVE FindFrom(_, _)
FindFrom(node, i) ==
    LET terms == TermsOrRolls(node)
    IN  IF i > Len(terms) THEN NotFound
        ELSE IF terms[i].faces = 20 THEN [found |-> TRUE, path |-> <<i>>]
        ELSE LET innerResult ==
                     IF terms[i].via \in {"terms", "rolls"}
                     THEN FindFrom(terms[i], 1) ELSE NotFound
             IN  IF innerResult.found
                 THEN [found |-> TRUE, path |-> <<i>> \o innerResult.path]
                 ELSE FindFrom(node, i + 1)

findD20Term(r) == IF r = NoRoll THEN NotFound ELSE FindFrom(r, 1)

\* The term of node at a path, and node with that term replaced.
RECURSIVE TermAt(_, _), WithTermAt(_, _, _)
TermAt(node, path) ==
    IF path = <<>> THEN node ELSE TermAt(node.kids[Head(path)], Tail(path))

WithTermAt(node, path, term) ==
    IF path = <<>> THEN term
    ELSE [node EXCEPT !.kids[Head(path)] = WithTermAt(@, Tail(path), term)]

\* Roll.formula: the terms' own formulas joined, as a sequence of tokens.
RECURSIVE Formula(_), TermFormula(_)
TermFormula(term) ==
    IF term.faces > 0
    THEN <<ToString(term.number), "d", ToString(term.faces)>> \o term.modifiers
    ELSE IF term.via = "terms" THEN <<"(">> \o Formula(term) \o <<")">>
    ELSE IF term.via = "rolls" THEN <<"{">> \o Formula(term) \o <<"}">>
    ELSE <<"+">>

RECURSIVE JoinFormulas(_, _)
JoinFormulas(terms, i) ==
    IF i > Len(terms) THEN <<>> ELSE TermFormula(terms[i]) \o JoinFormulas(terms, i + 1)

Formula(node) == JoinFormulas(node.kids, 1)

\* modifiers.filter((m) => !["kh", "kl"].includes(m))
WithoutKeep(modifiers) == SelectSeq(modifiers, LAMBDA m : m \notin {"kh", "kl"})

Includes(modifiers, m) == \E i \in DOMAIN modifiers : modifiers[i] = m

\* A slip: the formula read before the term is rewritten.
parseD20FormulaEarlyFormula(r) ==
    LET found == findD20Term(r)
    IN  IF ~found.found
        THEN [ret |-> [formula |-> Formula(r), full |-> FALSE,
                       numRolls |-> -1, rollState |-> "absent"],
              roll |-> r]
        ELSE LET term == TermAt(r, found.path)
                 after == WithTermAt(r, found.path,
                              [term EXCEPT !.number = 1,
                                           !.modifiers = WithoutKeep(@)])
             IN  [ret |-> [formula |-> Formula(r), full |-> TRUE,
                           numRolls |-> term.number,
                           rollState |-> IF Includes(term.modifiers, "kh") THEN "highest"
                                         ELSE IF Includes(term.modifiers, "kl") THEN "lowest"
                                         ELSE Null],
                  roll |-> after]

\* A slip: the count is reset but the keep modifiers stay on the term.
parseD20FormulaKeepsModifiers(r) ==
    LET found == findD20Term(r)
    IN  IF ~found.found
        THEN [ret |-> [formula |-> Formula(r), full |-> FALSE,
                       numRolls |-> -1, rollState |-> "absent"],
              roll |-> r]
        ELSE LET term == TermAt(r, found.path)
                 after == WithTermAt(r, found.path, [term EXCEPT !.number = 1])
             IN  [ret |-> [formula |-> Formula(after), full |-> TRUE,
                           numRolls |-> term.number,
                           rollState |-> IF Includes(term.modifiers, "kh") THEN "highest"
                                         ELSE IF Includes(term.modifiers, "kl") THEN "lowest"
                                         ELSE Null],
                  roll |-> after]

\* parseD20Formula on a Roll object: what it returns (ret; full is FALSE when
\* only the formula is returned) and the roll as it leaves it.
parseD20Formula(r) ==
    LET found == findD20Term(r)
    IN  IF ~found.found
        THEN [ret |-> [formula |-> Formula(r), full |-> FALSE,
                       numRolls |-> -1, rollState |-> "absent"],
              roll |-> r]
        ELSE LET term == TermAt(r, found.path)
                 after == WithTermAt(r, found.path,
                              [term EXCEPT !.number = 1,
                                           !.modifiers = WithoutKeep(@)])
             IN  [ret |-> [formula |-> Formula(after), full |-> TRUE,
                           numRolls |-> term.number,
                           rollState |-> IF Includes(term.modifiers, "kh") THEN "highest"
                                         ELSE IF Includes(term.modifiers, "kl") THEN "lowest"
                                         ELSE Null],
                  roll |-> after]

InitD20 ==
    /\ pc = "idle"
    /\ RollStateIdle
    /\ ProcessIdle
    /\ \/ d20Roll = NoRoll
       \/ \E n \in 0..MaxNodes : \E d \in TreeShapes(n) : \E labels \in [1..n -> D20Terms] :
             /\ Fits(d, labels)
             /\ d20Roll = RollOf(BuildKids(d, labels, 0))
    /\ d20Term = NotFound
    /\ parsed = NotParsed
    /\ rollBefore = d20Roll
    /\ firstParsed = NotParsed
    /\ parseCalls = 0
    /\ FlavorsIdle
    /\ CritIdle
    /\ SoundIdle

FindD20Term ==
    /\ pc # "findD20Term"
    /\ d20Term' = findD20Term(d20Roll)
    /\ rollBefore' = d20Roll
    /\ pc' = "findD20Term"
    /\ UNCHANGED <<d20Roll, parsed, firstParsed, parseCalls, rollStateVars, processVars, flavorVars, critVars, soundVars>>

\* A caller passes a Roll (or a formula, which the roll engine parses into
\* one); the calls are counted up to "two or more".
ParseD20Formula ==
    /\ d20Roll # NoRoll
    /\ LET call == parseD20Formula(d20Roll)
       IN  /\ parsed' = call.ret
           /\ d20Roll' = call.roll
           /\ firstParsed' = IF parseCalls = 0 THEN call.ret ELSE firstParsed
    /\ rollBefore' = d20Roll
    /\ parseCalls' = IF parseCalls = 0 THEN 1 ELSE 2
    /\ pc' = "parseD20Formula"
    /\ UNCHANGED <<d20Term, rollStateVars, processVars, flavorVars, critVars, soundVars>>

NextD20 == FindD20Term \/ ParseD20Formula

SpecD20 == InitD20 /\ [][NextD20]_vars

\* The paths of all the terms nested in node, at any depth.
RECURSIVE PathsIn(_)
PathsIn(node) ==
    UNION {{<<i>>} \cup {<<i>> \o p : p \in PathsIn(node.kids[i])} : i \in DOMAIN node.kids}

\* The paths of the terms of 20 faces in roll r.
D20Paths(r) == {p \in PathsIn(r) : TermAt(r, p).faces = 20}

\* Path p is visited no later than path q in depth-first order.
RECURSIVE NoLater(_, _)
NoLater(p, q) ==
    IF p = <<>> THEN TRUE
    ELSE IF q = <<>> THEN FALSE
    ELSE IF Head(p) # Head(q) THEN Head(p) < Head(q)
    ELSE NoLater(Tail(p), Tail(q))

\* The first term of 20 faces of r in depth-first order, given there is one.
FirstD20Path(r) == CHOOSE p \in D20Paths(r) : \A q \in D20Paths(r) : NoLater(p, q)

\* C7: findD20Term returns the first term with faces = 20 in depth-first
\* order through the nested terms at any depth, nothing when the tree holds
\* no such term or when no roll is supplied, and leaves the tree as it was.
FindsFirstD20 ==
    pc = "findD20Term" =>
        /\ d20Roll = rollBefore
        /\ IF d20Roll = NoRoll \/ D20Paths(d20Roll) = {}
           THEN ~d20Term.found
           ELSE d20Term.found /\ d20Term.path = FirstD20Path(d20Roll)

\* A tree of C7: the first d20 sits inside a pool (held under "rolls"), and
\* another d20 follows the pool at the top level.
FindsFirstD20Witness ==
    /\ pc = "findD20Term"
    /\ d20Term.found /\ Len(d20Term.path) = 2
    /\ d20Roll.kids[1].via = "rolls"
    /\ Cardinality(D20Paths(d20Roll)) = 2

\* C5: on a roll whose d20 term has count N, parseD20Formula returns
\* numRolls = N and rollState "highest" for a kh modifier ("lowest" for kl,
\* kh being tested first), and the formula returned is that of the roll with
\* the d20 term's count set to 1 and its kh and kl modifiers removed; without
\* a d20 term it returns the formula alone and changes no term.
NormalizesD20 ==
    pc = "parseD20Formula" =>
        IF D20Paths(rollBefore) = {}
        THEN /\ ~parsed.full
             /\ parsed.formula = Formula(rollBefore)
             /\ d20Roll = rollBefore
        ELSE LET path == FirstD20Path(rollBefore)
                 term == TermAt(rollBefore, path)
                 single == [term EXCEPT
                               !.number = 1,
                               !.modifiers = SelectSeq(@, LAMBDA m : m # "kh" /\ m # "kl")]
             IN  /\ parsed.full
                 /\ parsed.numRolls = term.number
                 /\ Includes(term.modifiers, "kh") => parsed.rollState = "highest"
                 /\ (Includes(term.modifiers, "kl") /\ ~Includes(term.modifiers, "kh"))
                        => parsed.rollState = "lowest"
                 /\ d20Roll = WithTermAt(rollBefore, path, single)
                 /\ parsed.formula = Formula(WithTermAt(rollBefore, path, single))
                 /\ TermFormula(TermAt(d20Roll, path)) \in
                        {<<"1", "d", "20">>, <<"1", "d", "20", "r1">>}

\* A roll of C5: 2d20kh inside a nested term, normalized to 1d20.
NormalizesD20Witness ==
    /\ pc = "parseD20Formula"
    /\ parseCalls = 1
    /\ parsed.numRolls = 2 /\ parsed.rollState = "highest"
    /\ D20Paths(rollBefore) # {}
    /\ Len(FirstD20Path(rollBefore)) = 2
    /\ TermAt(rollBefore, FirstD20Path(rollBefore)).modifiers = <<"r1", "kh">>
    /\ parsed.formula # Formula(rollBefore)

\* C6: a second call of parseD20Formula on the roll it has normalized
\* returns the formula of the first call, numRolls absent or 1, rollState
\* absent (or null), and leaves the terms as they were.
NormalizeIsIdempotent ==
    (pc = "parseD20Formula" /\ parseCalls = 2) =>
        /\ parsed.formula = firstParsed.formula
        /\ ~parsed.full \/ parsed.numRolls = 1
        /\ parsed.rollState \in {"absent", Null}
        /\ d20Roll = rollBefore

\* A roll of C6: the first call found 2d20 with kl, the second finds 1d20.
NormalizeIsIdempotentWitness ==
    /\ pc = "parseD20Formula" /\ parseCalls = 2
    /\ firstParsed.numRolls = 2 /\ firstParsed.rollState = "lowest"
    /\ parsed.numRolls = 1 /\ parsed.rollState = Null

(***************************************************************************)
(* Utils.getRollFlavors                                                    *)
(***************************************************************************)

MaxFlavorNodes == 4     \* rolls passed and the terms in them, nested ones included

FlavorNames == {"Thunder", "Fire"}

\* The objects under the rolls passed: dice terms with or without a flavor,
\* nested terms (under "terms" or under "rolls") with or without one, and
\* plain objects (an operator, or one result of a die).
FlavorTerms ==
    {Node(8, 1, <<>>, f, "results", <<>>) : f \in FlavorNames \cup {""}}
    \cup {Node(0, 0, <<>>, f, via, <<>>) : f \in {"", "Fire"}, via \in {"terms", "rolls"}}
    \cup {Operator}

\* The rolls passed come first (depth 1); a die holds only its results, a
\* nested term anything, a plain object nothing.
FitsFlavors(d, labels) ==
    \A i \in 1..Len(d) :
        /\ d[i] = 1 => labels[i] = RollOf(<<>>)
        /\ ChildrenOf(d, i) # {} => labels[i].via \in {"terms", "rolls", "results"}
        /\ labels[i].via = "results" => \A j \in ChildrenOf(d, i) : labels[j] = Operator

\* roll?.terms ?? roll?.results ?? []
TermsOrResults(node) == IF node.via \in {"terms", "results"} THEN node.kids ELSE <<>>

\* Set.add on the flavors collected so far, in insertion order.
AddFlavor(acc, f) ==
    IF \E i \in DOMAIN acc : acc[i] = f THEN acc ELSE Append(acc, f)

RECURSIVE AddFlavors(_, _)
AddFlavors(acc, more) ==
    IF more = <<>> THEN acc ELSE AddFlavors(AddFlavor(acc, Head(more)), Tail(more))

\* The loops of getRollFlavors: over the rolls passed (from roll i on) and
\* over the terms of one roll (from term j on), acc being the Set so far.
RECURSIVE FlavorsOfRolls(_, _, _), FlavorsOfTerms(_, _, _)
FlavorsOfTerms(terms, j, acc) ==
    IF j > Len(terms) THEN acc
    ELSE LET term == terms[j]
             own == IF term.flavor # "" THEN AddFlavor(acc, term.flavor) ELSE acc
             all == IF term.via \in {"terms", "results"}
                    THEN AddFlavors(own, FlavorsOfRolls(<<term>>, 1, <<>>))
                    ELSE own
         IN  FlavorsOfTerms(terms, j + 1, all)

FlavorsOfRolls(rolls, i, acc) ==
    IF i > Len(rolls) THEN acc
    ELSE FlavorsOfRolls(rolls, i + 1, FlavorsOfTerms(TermsOrResults(rolls[i]), 1, acc))

getRollFlavors(rolls) == FlavorsOfRolls(rolls, 1, <<>>)

InitFlavors ==
    /\ pc = "idle"
    /\ RollStateIdle
    /\ ProcessIdle
    /\ D20Idle
    /\ \E n \in 0..MaxFlavorNodes : \E d \in TreeShapes(n) : \E labels \in [1..n -> FlavorTerms] :
          /\ FitsFlavors(d, labels)
          /\ flavorRolls = BuildKids(d, labels, 0)
    /\ flavors = <<>>
    /\ CritIdle
    /\ SoundIdle

GetRollFlavors ==
    /\ pc = "idle"
    /\ flavors' = getRollFlavors(flavorRolls)
    /\ pc' = "getRollFlavors"
    /\ UNCHANGED <<flavorRolls, rollStateVars, processVars, d20Vars, critVars, soundVars>>

NextFlavors == GetRollFlavors

SpecFlavors == InitFlavors /\ [][NextFlavors]_vars

\* The flavors of the terms of a list and of everything nested in them, in
\* the order a depth-first walk meets them, repeats included.
RECURSIVE FlavorsInOrder(_)
FlavorsInOrder(terms) ==
    IF terms = <<>> THEN <<>>
    ELSE (IF Head(terms).flavor # "" THEN <<Head(terms).flavor>> ELSE <<>>)
         \o FlavorsInOrder(Head(terms).kids) \o FlavorsInOrder(Tail(terms))

RECURSIVE FlavorsOfAll(_)
FlavorsOfAll(rolls) ==
    IF rolls = <<>> THEN <<>>
    ELSE FlavorsInOrder(Head(rolls).kids) \o FlavorsOfAll(Tail(rolls))

\* C10: getRollFlavors returns every non-empty flavor found on a term at any
\* nesting depth of the rolls passed, once each, in the order of first
\* discovery; no rolls give no flavors.
FlavorsAllFound ==
    pc = "getRollFlavors" => flavors = AddFlavors(<<>>, FlavorsOfAll(flavorRolls))

(***************************************************************************)
(* ItemUtils.getBaseCritRoll and ItemUtils.getCritRoll                     *)
(*                                                                         *)
(* Formulas are strings, written as the sequence of their characters, so   *)
(* that the regular expression of getBaseCritRoll is matched character by  *)
(* character.  new Roll(formula) and Roll.formula are the host's parser    *)
(* and printer: the parser reads dice (NdF), numbers and the operators +   *)
(* and -, the printer joins the terms with one space.                      *)
(***************************************************************************)

MaxCritTerms == 2      \* terms in a base formula

DigitChars == <<"0", "1", "2", "3", "4", "5", "6", "7", "8", "9">>

IsDigit(c) == \E i \in DOMAIN DigitChars : DigitChars[i] = c

DigitValue(c) == (CHOOSE i \in DOMAIN DigitChars : DigitChars[i] = c) - 1

\* Number.toString for a natural number, and for an integer.
RECURSIVE NatText(_)
NatText(n) ==
    IF n < 10 THEN <<DigitChars[n + 1]>>
    ELSE NatText(n \div 10) \o <<DigitChars[(n % 10) + 1]>>

IntText(n) == IF n < 0 THEN <<"-">> \o NatText(-n) ELSE NatText(n)

\* How many characters from position i on are in the class chars (a greedy
\* repetition), and the number written by the k digits from position i on.
RECURSIVE RunOf(_, _, _)
RunOf(s, i, chars) ==
    IF i <= Len(s) /\ s[i] \in chars THEN 1 + RunOf(s, i + 1, chars) ELSE 0

RECURSIVE NumberAt(_, _, _)
NumberAt(s, i, k) ==
    IF k = 0 THEN 0 ELSE NumberAt(s, i, k - 1) * 10 + DigitValue(s[i + k - 1])

Digits == {DigitChars[i] : i \in DOMAIN DigitChars}

DieTerm(number, faces) == [type |-> "die", number |-> number, faces |-> faces, op |-> "", result |-> 0]
NumberTerm(n) == [type |-> "number", number |-> n, faces |-> 0, op |-> "", result |-> 0]
OperatorTerm(op) == [type |-> "op", number |-> 0, faces |-> 0, op |-> op, result |-> 0]

\* new Roll(formula).terms: the terms the host reads from a formula.
RECURSIVE ParseFrom(_, _)
ParseFrom(s, i) ==
    IF i > Len(s) THEN <<>>
    ELSE IF s[i] \in {"+", "-"} THEN <<OperatorTerm(s[i])>> \o ParseFrom(s, i + 1)
    ELSE IF IsDigit(s[i])
         THEN LET k == RunOf(s, i, Digits)
                  f == IF i + k <= Len(s) /\ s[i + k] \in {"d", "D"}
                       THEN RunOf(s, i + k + 1, Digits) ELSE 0
              IN  IF f > 0
                  THEN <<DieTerm(NumberAt(s, i, k), NumberAt(s, i + k + 1, f))>>
                       \o ParseFrom(s, i + k + 1 + f)
                  ELSE <<NumberTerm(NumberAt(s, i, k))>> \o ParseFrom(s, i + k)
    ELSE ParseFrom(s, i + 1)

Parse(s) == ParseFrom(s, 1)

\* Roll.formula: the terms printed and joined with a space.
TermText(term) ==
    IF term.type = "die" THEN NatText(term.number) \o <<"d">> \o NatText(term.faces)
    ELSE IF term.type = "number" THEN NatText(term.number)
    ELSE <<term.op>>

RECURSIVE JoinTerms(_, _)
JoinTerms(terms, i) ==
    IF i > Len(terms) THEN <<>>
    ELSE IF i = Len(terms) THEN TermText(terms[i])
    ELSE TermText(terms[i]) \o <<" ">> \o JoinTerms(terms, i + 1)

RollFormula(terms) == JoinTerms(terms, 1)

\* critRegex, /[+-]+\s*(?:@[a-zA-Z0-9.]+|[0-9]+(?![Dd]))/, tried at position
\* i: the length of the match, 0 when there is none.  The repetitions are
\* greedy; the only one that can give characters back is [0-9]+, whose last
\* digit is given back when a D or d follows it.
IdentifierChars == Digits \cup {"d", "D", "."}

critRegexMatch(s, i) ==
    LET signs == RunOf(s, i, {"+", "-"})
        spaces == RunOf(s, i + signs, {" "})
        j == i + signs + spaces
        name == IF j <= Len(s) /\ s[j] = "@" THEN RunOf(s, j + 1, IdentifierChars) ELSE 0
        digits == RunOf(s, j, Digits)
        dieFollows == j + digits <= Len(s) /\ s[j + digits] \in {"d", "D"}
    IN  IF signs = 0 THEN 0
        ELSE IF name > 0 THEN signs + spaces + 1 + name
        ELSE IF digits = 0 THEN 0
        ELSE IF ~dieFollows THEN signs + spaces + digits
        ELSE IF digits > 1 THEN signs + spaces + digits - 1
        ELSE 0

\* formula.replace(critRegex, ""), from position i on.
RECURSIVE ReplaceFrom(_, _)
ReplaceFrom(s, i) ==
    IF i > Len(s) THEN <<>>
    ELSE LET m == critRegexMatch(s, i)
         IN  IF m > 0 THEN ReplaceFrom(s, i + m)
             ELSE <<s[i]>> \o ReplaceFrom(s, i + 1)

\* new Roll(formula), not evaluated.
NewRoll(formula) ==
    LET terms == Parse(formula)
    IN  [null |-> FALSE, terms |-> terms, formula |-> RollFormula(terms),
         evaluated |-> FALSE, total |-> 0]

getBaseCritRoll(formula) ==
    IF formula = <<>> THEN NoCritRoll
    ELSE LET strippedRoll == NewRoll(formula)
             critFormula == ReplaceFrom(strippedRoll.formula, 1)
             crit == NewRoll(critFormula)
         IN  IF Len(crit.terms) = 1 /\ crit.terms[1].type = "number"
             THEN NoCritRoll
             ELSE crit

\* Roll.alter(1, add): every dice term gets add more dice.
alter(r, add) ==
    LET terms == [i \in DOMAIN r.terms |->
                    IF r.terms[i].type = "die"
                    THEN [r.terms[i] EXCEPT !.number = @ + add]
                    ELSE r.terms[i]]
    IN  [r EXCEPT !.terms = terms, !.formula = RollFormula(terms)]

\* The dice of a list of terms, as <<number, faces>> pairs in order.
RECURSIVE DiceOf(_)
DiceOf(terms) ==
    IF terms = <<>> THEN <<>>
    ELSE (IF Head(terms).type = "die" THEN <<<<Head(terms).number, Head(terms).faces>>>> ELSE <<>>)
         \o DiceOf(Tail(terms))

\* The dice terms among the first i terms.
RECURSIVE DiceBefore(_, _)
DiceBefore(terms, i) ==
    IF i = 0 THEN 0
    ELSE DiceBefore(terms, i - 1) + (IF terms[i].type = "die" THEN 1 ELSE 0)

\* The value of the terms from term i on: an operand counts with the sign
\* of the operators since the operand before it.
RECURSIVE TotalFrom(_, _, _)
TotalFrom(terms, i, sign) ==
    IF i > Len(terms) THEN 0
    ELSE IF terms[i].type = "op"
         THEN TotalFrom(terms, i + 1, IF terms[i].op = "-" THEN -sign ELSE sign)
    ELSE (sign * (IF terms[i].type = "die" THEN terms[i].result ELSE terms[i].number))
         + TotalFrom(terms, i + 1, 1)

\* Roll.evaluate: with maximize every die shows its highest face; without,
\* the dice of the k-th dice term all show their highest face when high[k]
\* and all show 1 otherwise (two of the results the dice can give).
evaluate(r, maximize, high) ==
    LET terms == [i \in DOMAIN r.terms |->
                    IF r.terms[i].type = "die"
                    THEN LET k == DiceBefore(r.terms, i)
                             top == maximize \/ (k \in DOMAIN high /\ high[k])
                         IN  [r.terms[i] EXCEPT !.result =
                                 IF top THEN r.terms[i].number * r.terms[i].faces
                                 ELSE r.terms[i].number]
                    ELSE r.terms[i]]
    IN  [r EXCEPT !.terms = terms, !.evaluated = TRUE, !.total = TotalFrom(terms, 1, 1)]

\* extraCritDice ?? 0
ExtraOrZero(extra) == IF extra = <<>> THEN 0 ELSE extra[1]

\* critRoll after line 630 of getCritRoll.
RolledCrit(formula, extra, high) ==
    LET base == getBaseCritRoll(formula)
    IN  IF base.null THEN NoCritRoll
        ELSE evaluate(alter(base, ExtraOrZero(extra)), FALSE, high)

\* new Roll(baseFormula).evaluate({maximize: true}).total - baseTotal
maxDifference(formula, total) == evaluate(NewRoll(formula), TRUE, <<>>).total - total

\* getCritRoll with the chain of tests ending in the "2" branch: any
\* critBehavior other than "3" and "4" maximizes the crit dice.
getCritRollMaximizesByDefault(formula, total, extra, behavior, high, highAgain) ==
    LET rolled == RolledCrit(formula, extra, high)
        newFormula == rolled.formula \o <<"+">> \o IntText(maxDifference(formula, total))
    IN  IF rolled.null THEN NoCritRoll
        ELSE IF behavior = "3" THEN evaluate(NewRoll(newFormula), TRUE, <<>>)
        ELSE IF behavior = "4" THEN evaluate(NewRoll(newFormula), FALSE, highAgain)
        ELSE evaluate(NewRoll(rolled.formula), TRUE, <<>>)

getCritRoll(formula, total, extra, behavior, high, highAgain) ==
    LET rolled == RolledCrit(formula, extra, high)
        newFormula == rolled.formula \o <<"+">> \o IntText(maxDifference(formula, total))
    IN  IF rolled.null THEN NoCritRoll
        ELSE IF behavior = "2" THEN evaluate(NewRoll(rolled.formula), TRUE, <<>>)
        ELSE IF behavior = "3" THEN evaluate(NewRoll(newFormula), TRUE, <<>>)
        ELSE IF behavior = "4" THEN evaluate(NewRoll(newFormula), FALSE, highAgain)
        ELSE rolled

\* The base formulas tried: up to MaxCritTerms dice and flat numbers joined
\* by + or -, with or without a leading -, and the empty formula.
CritTermTexts == {<<"3">>, <<"1", "d", "8">>, <<"1", "0", "d", "6">>}

RECURSIVE BuildFormula(_, _, _)
BuildFormula(texts, signs, i) ==
    IF i > Len(texts) THEN <<>>
    ELSE (IF i = 1 /\ signs[i] = "+" THEN <<>> ELSE <<signs[i]>>)
         \o texts[i] \o BuildFormula(texts, signs, i + 1)

BaseTotals == {7, 30}
ExtraCritDiceValues == {<<>>, <<0>>, <<2>>}
CritBehaviors == {"0", "1", "2", "3", "4"}

\* The results a roll of the crit dice can give: one choice for each dice
\* term of the base crit roll.
DiceResults(formula) ==
    [1..Len(DiceOf(getBaseCritRoll(formula).terms)) -> BOOLEAN]

InitCrit ==
    /\ pc = "idle"
    /\ RollStateIdle
    /\ ProcessIdle
    /\ D20Idle
    /\ FlavorsIdle
    /\ \E n \in 0..MaxCritTerms :
          \E texts \in [1..n -> CritTermTexts], signs \in [1..n -> {"+", "-"}] :
             baseFormula = BuildFormula(texts, signs, 1)
    /\ baseTotal = 0
    /\ extraCritDice = <<>>
    /\ critBehavior = Null
    /\ rolledCrit = NoCritRoll
    /\ critRoll = NoCritRoll
    /\ SoundIdle

GetCritRoll ==
    /\ pc = "idle"
    /\ \E total \in BaseTotals, extra \in ExtraCritDiceValues, behavior \in CritBehaviors :
          \E high \in DiceResults(baseFormula),
             highAgain \in (IF behavior = "4" THEN DiceResults(baseFormula) ELSE {<<>>}) :
             /\ baseTotal' = total
             /\ extraCritDice' = extra
             /\ critBehavior' = behavior
             /\ rolledCrit' = RolledCrit(baseFormula, extra, high)
             /\ critRoll' = getCritRoll(baseFormula, total, extra, behavior, high, highAgain)
    /\ pc' = "getCritRoll"
    /\ UNCHANGED <<baseFormula, rollStateVars, processVars, d20Vars, flavorVars, soundVars>>

NextCrit == GetCritRoll

SpecCrit == InitCrit /\ [][NextCrit]_vars

HasNumber(terms) == \E i \in DOMAIN terms : terms[i].type = "number"

\* C8: getCritRoll returns null, and evaluates no roll, whenever the base
\* formula is empty or has no dice at all, whatever the critBehavior.
NoDiceGivesNull ==
    (pc = "getCritRoll" /\ DiceOf(Parse(baseFormula)) = <<>>) => critRoll = NoCritRoll

\* C9: for a base formula with dice and critBehavior "1", the roll returned
\* has exactly the dice of the base formula, each with extraCritDice more
\* dice, and none of its flat numbers.
CritDiceAreBaseDice ==
    (pc = "getCritRoll" /\ DiceOf(Parse(baseFormula)) # <<>> /\ critBehavior = "1") =>
        /\ ~critRoll.null
        /\ DiceOf(critRoll.terms)
              = [i \in DOMAIN DiceOf(Parse(baseFormula)) |->
                    <<DiceOf(Parse(baseFormula))[i][1] + ExtraOrZero(extraCritDice),
                      DiceOf(Parse(baseFormula))[i][2]>>]
        /\ ~HasNumber(critRoll.terms)

\* The formula left by the stripping step of getBaseCritRoll (lines 602 to
\* 608): the base formula as the host prints it, with every match of
\* critRegex removed.
critFormulaOf(formula) == ReplaceFrom(NewRoll(formula).formula, 1)

\* C11: for every formula of dice terms and flat numbers joined by + or -,
\* in any order, what the regex replace leaves holds each dice term of the
\* formula with its count and faces, and no flat number.
StripKeepsDiceDropsFlats ==
    pc = "getCritRoll" =>
        /\ DiceOf(Parse(critFormulaOf(baseFormula))) = DiceOf(Parse(baseFormula))
        /\ ~HasNumber(Parse(critFormulaOf(baseFormula)))

\* The crit dice of a base formula: its dice terms, each with extra more
\* dice, under the signs they have in the formula; the flat numbers count
\* for nothing.
CritDice(formula, extra) ==
    LET terms == Parse(formula)
        dice == [i \in DOMAIN terms |->
                   IF terms[i].type = "number" THEN NumberTerm(0) ELSE terms[i]]
    IN  alter([NewRoll(formula) EXCEPT !.terms = dice], ExtraOrZero(extra))

\* The totals the crit dice can give when rolled, and their total with
\* every die at its highest face.
CritDiceTotals(formula, extra) ==
    {evaluate(CritDice(formula, extra), FALSE, high).total :
        high \in [1..Len(DiceOf(Parse(formula))) -> BOOLEAN]}

CritDiceMax(formula, extra) == evaluate(CritDice(formula, extra), TRUE, <<>>).total

\* C12: for a base formula with dice the total returned is max(C) under
\* critBehavior "2", max(C) + maxDifference under "3" and a rolled total of
\* C plus maxDifference under "4", C being the crit dice (dice only, with
\* extraCritDice more dice each) and maxDifference the maximized base
\* formula less baseTotal.
PolicyTotals ==
    (pc = "getCritRoll" /\ DiceOf(Parse(baseFormula)) # <<>>) =>
        /\ critBehavior \in {"2", "3", "4"} => ~critRoll.null
        /\ critBehavior = "2" =>
              critRoll.total = CritDiceMax(baseFormula, extraCritDice)
        /\ critBehavior = "3" =>
              critRoll.total = CritDiceMax(baseFormula, extraCritDice)
                                  + maxDifference(baseFormula, baseTotal)
        /\ critBehavior = "4" =>
              \E rolled \in CritDiceTotals(baseFormula, extraCritDice) :
                 critRoll.total = rolled + maxDifference(baseFormula, baseTotal)

\* C13: under critBehavior "1" and under any critBehavior outside "1" to
\* "4", getCritRoll returns the roll of line 630 as it is: the crit formula
\* with extraCritDice more dice, rolled once, nothing maximized and nothing
\* appended; the call returns (a roll or null) and raises nothing.
BaselineUnchanged ==
    (pc = "getCritRoll" /\ critBehavior \notin {"2", "3", "4"}) =>
        /\ critRoll = rolledCrit
        /\ ~critRoll.null =>
              /\ critRoll.evaluated
              /\ critRoll.formula
                    = alter(getBaseCritRoll(baseFormula), ExtraOrZero(extraCritDice)).formula
              /\ critRoll.total = TotalFrom(critRoll.terms, 1, 1)

\* An unrecognized critBehavior with two extra crit dice, the crit dice
\* having rolled 1s: the roll returned is the one rolled, not a maximized one.
BaselineUnchangedWitness ==
    /\ pc = "getCritRoll"
    /\ critBehavior = "0"
    /\ extraCritDice = <<2>>
    /\ ~critRoll.null
    /\ critRoll = rolledCrit
    /\ \E i \in DOMAIN critRoll.terms :
          /\ critRoll.terms[i].type = "die"
          /\ critRoll.terms[i].number > 2
          /\ critRoll.terms[i].result = critRoll.terms[i].number

(***************************************************************************)
(* Utils.playDiceSound                                                     *)
(*                                                                         *)
(* A call runs to its end before anything else does (one thread); the      *)
(* callback given to setTimeout runs later, once its delay has passed.     *)
(***************************************************************************)

SoundDelay == 300       \* the delay given to setTimeout (ms)
MaxSoundCalls == 4      \* calls of playDiceSound
MaxTime == 900          \* the time modelled (ms)

Elapses == {100, 300}

\* The sequence without its i-th element.
WithoutAt(seq, i) == SubSeq(seq, 1, i - 1) \o SubSeq(seq, i + 1, Len(seq))

InitSound ==
    /\ pc = "idle"
    /\ RollStateIdle
    /\ ProcessIdle
    /\ D20Idle
    /\ FlavorsIdle
    /\ CritIdle
    /\ SoundIdle

\* playDiceSound without the test of the lock.
PlayDiceSoundUnlocked ==
    /\ soundCalls < MaxSoundCalls
    /\ now + SoundDelay <= MaxTime
    /\ soundCalls' = soundCalls + 1
    /\ playSoundLock' = "true"
    /\ soundEvents' = Append(soundEvents, "play")
    /\ timeouts' = Append(timeouts, now + SoundDelay)
    /\ pc' = "playDiceSound"
    /\ UNCHANGED <<now, rollStateVars, processVars, d20Vars, flavorVars, critVars>>

PlayDiceSound ==
    /\ soundCalls < MaxSoundCalls
    /\ now + SoundDelay <= MaxTime
    /\ soundCalls' = soundCalls + 1
    /\ IF ~Truthy(playSoundLock)
       THEN /\ playSoundLock' = "true"
            /\ soundEvents' = Append(soundEvents, "play")
            /\ timeouts' = Append(timeouts, now + SoundDelay)
       ELSE UNCHANGED <<playSoundLock, soundEvents, timeouts>>
    /\ pc' = "playDiceSound"
    /\ UNCHANGED <<now, rollStateVars, processVars, d20Vars, flavorVars, critVars>>

\* The callback of line 58, run for a timeout that is due.
Timeout ==
    /\ \E i \in DOMAIN timeouts :
          /\ timeouts[i] <= now
          /\ timeouts' = WithoutAt(timeouts, i)
    /\ playSoundLock' = "false"
    /\ soundEvents' = Append(soundEvents, "timeout")
    /\ pc' = "timeout"
    /\ UNCHANGED <<now, soundCalls, rollStateVars, processVars, d20Vars, flavorVars, critVars>>

\* Time passes.
Elapse ==
    /\ \E dt \in Elapses :
          /\ now + dt <= MaxTime
          /\ now' = now + dt
    /\ UNCHANGED <<pc, playSoundLock, timeouts, soundCalls, soundEvents,
                   rollStateVars, processVars, d20Vars, flavorVars, critVars>>

NextSound == PlayDiceSound \/ Timeout \/ Elapse

SpecSound == InitSound /\ [][NextSound]_vars

\* Time passes, and the event loop runs a callback that is due.
SpecSoundFair == SpecSound /\ WF_vars(Elapse) /\ WF_vars(Timeout)

LockHeld == Truthy(playSoundLock)

\* The lock is held exactly when one callback is pending, and never more
\* than one is.
LockIffOneTimeout ==
    /\ Len(timeouts) <= 1
    /\ LockHeld <=> Len(timeouts) = 1

\* A call made while the lock is held plays no sound and sets no timeout.
LockedCallDoesNothing ==
    (soundCalls' = soundCalls + 1 /\ LockHeld) =>
        /\ soundEvents' = soundEvents
        /\ timeouts' = timeouts
        /\ playSoundLock' = playSoundLock

\* A call made while the lock is free plays one sound, takes the lock and
\* sets one timeout, due SoundDelay later.
FreeCallPlays ==
    (soundCalls' = soundCalls + 1 /\ ~LockHeld) =>
        /\ soundEvents' = Append(soundEvents, "play")
        /\ timeouts' = <<now + SoundDelay>>
        /\ Truthy(playSoundLock')

\* Between any two sounds played a callback has run.
PlaysSeparated ==
    \A i \in 1..(Len(soundEvents) - 1) :
        ~(soundEvents[i] = "play" /\ soundEvents[i + 1] = "play")

\* C14: over any interleaving of calls of playDiceSound and runs of the
\* 300 ms callback, the lock is held exactly when one callback is pending
\* and never more than one is; a call made while the lock is held plays
\* nothing and sets no timeout; any two sounds played are separated by a
\* run of the callback; and a lock that is held is released in the end.
DebounceHolds ==
    /\ [](LockIffOneTimeout /\ PlaysSeparated)
    /\ [][LockedCallDoesNothing /\ FreeCallPlays]_vars
    /\ (LockHeld ~> ~LockHeld)

\* A sound, a call that found the lock held, the callback, a second sound.
DebounceHoldsWitness ==
    /\ soundCalls = 3
    /\ soundEvents = <<"play", "timeout", "play">>
    /\ LockHeld
    /\ Len(timeouts) = 1

====
